---- MODULE Spec2Model ----
(***************************************************************************)
(* A model of src/train.py: the module-level state (`now`, the tracking    *)
(* client), Trainer.__init__ / Trainer._build_data, and Trainer.train      *)
(* statement by statement.  The program counter of a train call is the     *)
(* source line of the next statement to execute.                           *)
(*                                                                         *)
(* The tracking store (experiments, runs, registry) and the file system    *)
(* are shared by all sessions (processes that imported the module).  A     *)
(* session is single-threaded: it is idle, inside Trainer.__init__, or     *)
(* inside Trainer.train.  Nothing in the program catches an exception      *)
(* (main, lines 170-178): a session in which Trainer(...) or train raised  *)
(* has ended.                                                              *)
(*                                                                         *)
(*   Spec          one session: any number of Trainer constructions and up *)
(*                 to MaxCalls calls of train, any statement of which may  *)
(*                 fail.                                                   *)
(*   SpecSessions  several sessions importing the module and constructing  *)
(*                 Trainers, their statements interleaved.                 *)
(*   SpecPartition several sessions constructing Trainers, without an      *)
(*                 experiment, over data files of every size.              *)
(*                                                                         *)
(* Python values: None is the empty tuple, any other optional value v is   *)
(* the one-element tuple <<v>>.  A path is a tuple of tokens, the          *)
(* distributed-filesystem prefix "dbfs:" being one token.                  *)
(***************************************************************************)
EXTENDS Integers, Sequences, FiniteSets, TLC

\* ------------------------------------------------------------- bounds
MaxTicks == 1
MaxCalls == 2
NumRows == 4

\* ------------------------------------------------- program constants
TestSizePct == 30
RandomState == 42
DefaultMaxLeafNodes == 32

col_label == "quality"
MlflowVersion == "mlflow-2.x"
SklearnVersion == "sklearn-1.x"
PlatformName == "Linux-x86_64"
PythonVersion == "3.x"

Sessions == {"s1", "s2"}

\* ------------------------------------------------------ Python values
None == <<>>
Some(v) == <<v>>

\* Mutant of Truthy: `x is not None` in place of `if x`.
Truthy_IsNotNone(x) == x # None

\* bool(x) of an optional string (`if x:`): None and "" are falsy.
Truthy(x) == x # None /\ x[1] # ""

\* bool(x) of an optional path: None and the empty path are falsy.
TruthyPath(x) == x # None /\ x[1] # <<>>

\* str(x), as the tracking client applies it to every tag and param value.
StrBool(b) == IF b THEN "True" ELSE "False"
StrOpt(x) == IF x = None THEN "None" ELSE x[1]
StrOptInt(x) == IF x = None THEN "None" ELSE ToString(x[1])

Put(f, k, v) == [x \in (DOMAIN f) \cup {k} |-> IF x = k THEN v ELSE f[x]]

\* round(x) of Python 3 for x = ms / 1000: to nearest, ties to even.
PyRoundSeconds(ms) ==
    LET q == ms \div 1000
        r == ms % 1000
    IN  IF r < 500 THEN q
        ELSE IF r > 500 THEN q + 1
        ELSE IF q % 2 = 0 THEN q ELSE q + 1

\* wine_quality.timestamp_utils: a rendered timestamp is the record of the
\* fields its text shows; millisecond precision shows the msec field too.
fmt_ts_seconds(seconds) == [sec |-> seconds]
fmt_ts_millis(millis) == [sec |-> millis \div 1000, msec |-> millis % 1000]

\* ------------------------------------------------------------- inputs
\* Data files of 1, 2, ... rows (the k-th has k rows), the label column first.
SizedFiles ==
    <<"rows1.csv", "rows2.csv", "rows3.csv", "rows4.csv", "rows5.csv", "rows6.csv",
      "rows7.csv">>

\* pd.read_csv over the files the model knows; "empty.csv" is a header without
\* rows, and a file the model does not know cannot be read.
ReadCsv(path) ==
    CASE path = "wine.csv" ->
            [ok |-> TRUE, columns |-> <<"alcohol", "pH", "quality">>, nrows |-> NumRows]
      [] path = "nolabel.csv" ->
            [ok |-> TRUE, columns |-> <<"alcohol", "pH">>, nrows |-> NumRows]
      [] path = "empty.csv" ->
            [ok |-> TRUE, columns |-> <<"alcohol", "pH", "quality">>, nrows |-> 0]
      [] \E k \in DOMAIN SizedFiles : SizedFiles[k] = path ->
            [ok |-> TRUE, columns |-> <<"quality", "alcohol", "pH">>,
             nrows |-> CHOOSE k \in DOMAIN SizedFiles : SizedFiles[k] = path]
      [] OTHER -> [ok |-> FALSE, columns |-> <<>>, nrows |-> 0]

\* The shuffle of a seeded generator: a fixed permutation of 1..n per seed.
Shuffle(n, seed) == [i \in 1..n |-> ((i + seed) % n) + 1]

\* Mutant of TrainTestSplit: the training partition is the whole dataset.
TrainTestSplit_Overlap(n, test_size_pct, seed) ==
    LET n_test == (test_size_pct * n + 99) \div 100
        perm == Shuffle(n, seed)
    IN  [ok |-> n - n_test > 0,
         test |-> {perm[i] : i \in 1..n_test},
         train |-> {perm[i] : i \in 1..n}]

\* sklearn.model_selection.train_test_split(data, test_size, random_state):
\* the first ceil(test_size * n) rows of the shuffle are the holdout, the others
\* the training partition; it raises when the training partition would be empty.
TrainTestSplit(n, test_size_pct, seed) ==
    LET n_test == (test_size_pct * n + 99) \div 100
        perm == Shuffle(n, seed)
    IN  [ok |-> n - n_test > 0,
         test |-> {perm[i] : i \in 1..n_test},
         train |-> {perm[i] : i \in (n_test + 1)..n}]

HasColumn(columns, c) == \E i \in DOMAIN columns : columns[i] = c
DropColumn(columns, c) == SelectSeq(columns, LAMBDA x : x # c)

\* Mutant of _build_data: the partitions are returned whatever was read.
_build_data_Unchecked(data_path) ==
    LET data == ReadCsv(data_path)
        split == TrainTestSplit(data.nrows, TestSizePct, RandomState)
    IN  [ok |-> TRUE, error |-> "",
         X_train |-> [rows |-> split.train, columns |-> DropColumn(data.columns, col_label)],
         X_test |-> [rows |-> split.test, columns |-> DropColumn(data.columns, col_label)],
         y_train |-> [rows |-> split.train, columns |-> <<col_label>>],
         y_test |-> [rows |-> split.test, columns |-> <<col_label>>]]

\* Lines 62-74: read, split, and separate the label column; reading, splitting
\* and dropping the label column can each raise.
_build_data(data_path) ==
    LET data == ReadCsv(data_path)
        split == TrainTestSplit(data.nrows, TestSizePct, RandomState)
        empty == [rows |-> {}, columns |-> <<>>]
    IN  IF ~data.ok
        THEN [ok |-> FALSE, error |-> "DataLoadError",
              X_train |-> empty, X_test |-> empty, y_train |-> empty, y_test |-> empty]
        ELSE IF ~split.ok
        THEN [ok |-> FALSE, error |-> "ValueError",
              X_train |-> empty, X_test |-> empty, y_train |-> empty, y_test |-> empty]
        ELSE IF ~HasColumn(data.columns, col_label)
        THEN [ok |-> FALSE, error |-> "SchemaError",
              X_train |-> empty, X_test |-> empty, y_train |-> empty, y_test |-> empty]
        ELSE [ok |-> TRUE, error |-> "",
              X_train |-> [rows |-> split.train, columns |-> DropColumn(data.columns, col_label)],
              X_test |-> [rows |-> split.test, columns |-> DropColumn(data.columns, col_label)],
              y_train |-> [rows |-> split.train, columns |-> <<col_label>>],
              y_test |-> [rows |-> split.test, columns |-> <<col_label>>]]

\* --------------------------------------------------------------- state
VARIABLES
    clock,              \* time.time() of the host, in milliseconds
    now,                \* session -> the module-level `now` (None before import)
    active_experiment,  \* session -> mlflow's active experiment id of the process
    trainer,            \* session -> the Trainer object the session holds (or None)
    ctor,               \* session -> the frame of a Trainer.__init__ in progress (or None)
    init_error,         \* session -> the error that Trainer(...) raised in it (or None)
    calls,              \* the train invocations, in order: the frame (parameters, locals,
                        \* pc), the operations attempted so far (trace), the outcome,
                        \* and what the call was entered with (output_path_arg,
                        \* files_before)
    experiments,        \* tracking store: experiments, experiment_id = index - 1
    runs,               \* tracking store: run records, run_id = index (call: the train
                        \* invocation that opened the run)
    registry,           \* model registry: versions, and the calls the Registrar / Exporter got
    files               \* the file system under the output paths: path -> content

vars == <<clock, now, active_experiment, trainer, ctor, init_error, calls,
          experiments, runs, registry, files>>

store == <<experiments, runs, registry, files>>

Init ==
    /\ clock = 0
    /\ now = [s \in Sessions |-> None]
    /\ active_experiment = [s \in Sessions |-> 0]
    /\ trainer = [s \in Sessions |-> None]
    /\ ctor = [s \in Sessions |-> None]
    /\ init_error = [s \in Sessions |-> None]
    /\ calls = <<>>
    /\ experiments = <<[experiment_id |-> 0, name |-> "Default", tags |-> <<>>]>>
    /\ runs = <<>>
    /\ registry = [versions |-> <<>>, register_calls |-> <<>>, onnx_calls |-> <<>>]
    /\ files = <<>>

\* Program counters of a train call that are not a statement: the exit of the
\* `with` block (after line 159) and the end of the call (after line 168).
PcExit == 160
PcDone == 169

InCall(s) == \E i \in DOMAIN calls : calls[i].session = s /\ calls[i].pc # PcDone
Raised(i) == calls[i].outcome # None /\ calls[i].outcome[1].kind = "raised"
Returned(i) == calls[i].outcome # None /\ calls[i].outcome[1].kind = "returned"

\* The session ended with an uncaught exception.
Ended(s) ==
    \/ init_error[s] # None
    \/ \E i \in DOMAIN calls : calls[i].session = s /\ Raised(i)

Idle(s) == now[s] # None /\ ctor[s] = None /\ ~InCall(s) /\ ~Ended(s)

\* The host clock advances, 700 ms at a time.
Tick ==
    /\ clock < MaxTicks * 700
    /\ clock' = clock + 700
    /\ UNCHANGED <<now, active_experiment, trainer, ctor, init_error, calls, store>>

\* Import of the module by a session: line 43 fixes `now` for the session.
ImportModule(s) ==
    /\ now[s] = None
    /\ now' = [now EXCEPT ![s] = Some(fmt_ts_seconds(PyRoundSeconds(clock)))]
    /\ UNCHANGED <<clock, active_experiment, trainer, ctor, init_error, calls, store>>

\* ------------------------------------------------- Trainer.__init__
\* The arguments of Trainer(...) the model draws from.
TrainerArgs ==
    {[experiment_name |-> Some("exp"), data_path |-> "wine.csv", log_as_onnx |-> TRUE,
      save_signature |-> TRUE, run_origin |-> Some("origin"), use_run_id_as_run_name |-> TRUE],
     [experiment_name |-> None, data_path |-> "wine.csv", log_as_onnx |-> FALSE,
      save_signature |-> FALSE, run_origin |-> None, use_run_id_as_run_name |-> FALSE],
     [experiment_name |-> Some(""), data_path |-> "wine.csv", log_as_onnx |-> TRUE,
      save_signature |-> FALSE, run_origin |-> Some(""), use_run_id_as_run_name |-> FALSE],
     [experiment_name |-> Some("exp"), data_path |-> "missing.csv", log_as_onnx |-> FALSE,
      save_signature |-> TRUE, run_origin |-> None, use_run_id_as_run_name |-> FALSE],
     [experiment_name |-> Some("exp"), data_path |-> "nolabel.csv", log_as_onnx |-> FALSE,
      save_signature |-> FALSE, run_origin |-> None, use_run_id_as_run_name |-> TRUE]}

ExperimentByName(name) ==
    {i \in DOMAIN experiments : experiments[i].name = name}

\* Lines 47-55: the fields, the data partitions, and the test of experiment_name.
TrainerInitWith(s, args) ==
    /\ Idle(s)
    /\ \E a \in args :
          LET data == _build_data(a.data_path)
              self == [experiment_name |-> a.experiment_name,
                       data_path |-> a.data_path,
                       run_origin |-> a.run_origin,
                       log_as_onnx |-> a.log_as_onnx,
                       save_signature |-> a.save_signature,
                       use_run_id_as_run_name |-> a.use_run_id_as_run_name,
                       X_train |-> data.X_train, X_test |-> data.X_test,
                       y_train |-> data.y_train, y_test |-> data.y_test]
          IN  IF ~data.ok
              THEN /\ init_error' = [init_error EXCEPT ![s] = Some(data.error)]
                   /\ UNCHANGED <<trainer, ctor>>
              ELSE IF Truthy(a.experiment_name)
              THEN /\ ctor' = [ctor EXCEPT ![s] = Some([self |-> self, pc |-> 56, exp |-> 0])]
                   /\ UNCHANGED <<trainer, init_error>>
              ELSE /\ trainer' = [trainer EXCEPT ![s] = Some(self)]
                   /\ UNCHANGED <<ctor, init_error>>
    /\ UNCHANGED <<clock, now, active_experiment, calls, store>>

TrainerInit(s) == TrainerInitWith(s, TrainerArgs)

\* Trainer(None, data_path, False, False) over every data file of the model.
DatasetArgs ==
    {[experiment_name |-> None, data_path |-> p, log_as_onnx |-> FALSE,
      save_signature |-> FALSE, run_origin |-> None, use_run_id_as_run_name |-> FALSE] :
        p \in {SizedFiles[k] : k \in DOMAIN SizedFiles}
               \cup {"wine.csv", "nolabel.csv", "empty.csv", "missing.csv"}}

BuildData(s) == TrainerInitWith(s, DatasetArgs)

\* A tracking-store call of __init__ fails: the constructor raises, no Trainer.
CtorRaise(s, line) ==
    /\ ctor' = [ctor EXCEPT ![s] = None]
    /\ init_error' = [init_error EXCEPT ![s] = Some("MlflowException")]
    /\ UNCHANGED <<clock, now, active_experiment, trainer, calls, store>>

\* Line 56: mlflow.set_experiment creates the experiment when there is none of
\* that name and makes it the active experiment of the process.
SetExperiment(s) ==
    /\ ctor[s] # None /\ ctor[s][1].pc = 56
    /\ \/ LET name == ctor[s][1].self.experiment_name[1]
              found == ExperimentByName(name)
              id == IF found = {} THEN Len(experiments) ELSE (CHOOSE i \in found : TRUE) - 1
          IN  /\ experiments' =
                     IF found = {}
                     THEN Append(experiments, [experiment_id |-> id, name |-> name, tags |-> <<>>])
                     ELSE experiments
              /\ active_experiment' = [active_experiment EXCEPT ![s] = id]
              /\ ctor' = [ctor EXCEPT ![s] = Some([ctor[s][1] EXCEPT !.pc = 57])]
              /\ UNCHANGED <<clock, now, trainer, init_error, calls, runs, registry, files>>
       \/ CtorRaise(s, 56)

\* Line 57: client.get_experiment_by_name.
GetExperimentByName(s) ==
    /\ ctor[s] # None /\ ctor[s][1].pc = 57
    /\ \/ LET found == ExperimentByName(ctor[s][1].self.experiment_name[1])
          IN  /\ found # {}
              /\ ctor' = [ctor EXCEPT ![s] =
                            Some([ctor[s][1] EXCEPT !.pc = 58,
                                                    !.exp = (CHOOSE i \in found : TRUE) - 1])]
              /\ UNCHANGED <<clock, now, active_experiment, trainer, init_error, calls, store>>
       \/ CtorRaise(s, 57)

\* The value __init__ writes for an experiment tag (lines 58, 59).
ExperimentTagValue(s, key) ==
    IF key = "version_mlflow" THEN MlflowVersion ELSE now[s][1]

\* Lines 58-59: client.set_experiment_tag, and the end of __init__.
SetExperimentTag(s) ==
    /\ ctor[s] # None /\ ctor[s][1].pc \in {58, 59}
    /\ \/ LET f == ctor[s][1]
              key == IF f.pc = 58 THEN "version_mlflow" ELSE "experiment_created"
          IN  /\ experiments' = [experiments EXCEPT ![f.exp + 1].tags =
                                    Put(@, key, ExperimentTagValue(s, key))]
              /\ IF f.pc = 58
                 THEN /\ ctor' = [ctor EXCEPT ![s] = Some([f EXCEPT !.pc = 59])]
                      /\ UNCHANGED trainer
                 ELSE /\ ctor' = [ctor EXCEPT ![s] = None]
                      /\ trainer' = [trainer EXCEPT ![s] = Some(f.self)]
              /\ UNCHANGED <<clock, now, active_experiment, init_error, calls, runs, registry, files>>
       \/ CtorRaise(s, ctor[s][1].pc)

\* ---------------------------------------------------- Trainer.train
\* The arguments of train the model draws from (max_leaf_nodes is left at its
\* default).
TrainArgs ==
    {[registered_model_name |-> None, stage |-> "None", archive_existing_versions |-> FALSE,
      output_path |-> None, max_depth |-> None],
     [registered_model_name |-> Some(""), stage |-> "None", archive_existing_versions |-> FALSE,
      output_path |-> Some(<<>>), max_depth |-> Some(3)],
     [registered_model_name |-> Some("wine-model"), stage |-> "Staging",
      archive_existing_versions |-> TRUE,
      output_path |-> Some(<<"dbfs:", "/out/run_id.txt">>), max_depth |-> None],
     [registered_model_name |-> Some("wine-model"), stage |-> "Production",
      archive_existing_versions |-> FALSE,
      output_path |-> Some(<<"/tmp/run_id.txt">>), max_depth |-> Some(3)],
     [registered_model_name |-> None, stage |-> "Staging", archive_existing_versions |-> TRUE,
      output_path |-> Some(<<"/mnt/", "dbfs:", "/run_id.txt">>), max_depth |-> None]}

sess == <<clock, now, active_experiment, trainer, ctor, init_error>>

\* The operations of train, as they appear in a call's trace.
Op(name, arg) == <<name, arg>>

\* Mutant of WantsOnnx: the model is always exported.
WantsOnnx_Always(c) == TRUE

\* Line 145: the model is exported to ONNX only if self.log_as_onnx.
WantsOnnx(c) == c.self.log_as_onnx

\* Mutant of NextLine: the output path is tagged and written after the `with`
\* block, once the run is closed.
NextLine_WriteAfterClose(c, line) ==
    LET after_model == IF WantsOnnx(c) THEN 147 ELSE 151
    IN  CASE line = 78 -> 79
          [] line = 79 -> 85
          [] line = 85 -> IF c.self.use_run_id_as_run_name THEN 89 ELSE 90
          [] line \in 89..101 -> line + 1
          [] line = 102 -> 109
          [] line = 109 -> 110
          [] line = 110 -> 117
          [] line = 117 -> 118
          [] line = 118 -> 121
          [] line \in 121..122 -> line + 1
          [] line = 123 -> 130
          [] line \in 130..131 -> line + 1
          [] line = 132 -> 135
          [] line = 135 -> 139
          [] line = 139 -> IF Truthy(c.registered_model_name) THEN 141 ELSE after_model
          [] line = 141 -> after_model
          [] line = 147 -> 151
          [] line = 151 -> 152
          [] line = 152 -> PcExit
          [] line = PcExit -> IF TruthyPath(c.output_path) THEN 156 ELSE 162
          [] line = 156 -> 158
          [] line = 158 -> 159
          [] line = 159 -> 162
          [] line \in 162..165 -> line + 1
          [] line = 166 -> 168
          [] OTHER -> PcDone

\* Mutant of NextLine: the metrics are computed and logged before the params.
NextLine_MetricsBeforeParams(c, line) ==
    LET after_model == IF WantsOnnx(c) THEN 147 ELSE 151
    IN  CASE line = 78 -> 79
          [] line = 79 -> 85
          [] line = 85 -> IF c.self.use_run_id_as_run_name THEN 89 ELSE 90
          [] line \in 89..101 -> line + 1
          [] line = 102 -> 109
          [] line = 109 -> 110
          [] line = 110 -> 121
          [] line \in 121..122 -> line + 1
          [] line = 123 -> 130
          [] line \in 130..131 -> line + 1
          [] line = 132 -> 117
          [] line = 117 -> 118
          [] line = 118 -> 135
          [] line = 135 -> 139
          [] line = 139 -> IF Truthy(c.registered_model_name) THEN 141 ELSE after_model
          [] line = 141 -> after_model
          [] line = 147 -> 151
          [] line = 151 -> 152
          [] line = 152 -> IF TruthyPath(c.output_path) THEN 156 ELSE PcExit
          [] line = 156 -> 158
          [] line = 158 -> 159
          [] line = 159 -> PcExit
          [] line = PcExit -> 162
          [] line \in 162..165 -> line + 1
          [] line = 166 -> 168
          [] OTHER -> PcDone

\* The control flow of train: the statement that follows `line` when it succeeds.
NextLine(c, line) ==
    LET after_model == IF WantsOnnx(c) THEN 147 ELSE 151
    IN  CASE line = 78 -> 79
          [] line = 79 -> 85
          [] line = 85 -> IF c.self.use_run_id_as_run_name THEN 89 ELSE 90
          [] line \in 89..101 -> line + 1
          [] line = 102 -> 109
          [] line = 109 -> 110
          [] line = 110 -> 117
          [] line = 117 -> 118
          [] line = 118 -> 121
          [] line \in 121..122 -> line + 1
          [] line = 123 -> 130
          [] line \in 130..131 -> line + 1
          [] line = 132 -> 135
          [] line = 135 -> 139
          [] line = 139 -> IF Truthy(c.registered_model_name) THEN 141 ELSE after_model
          [] line = 141 -> after_model
          [] line = 147 -> 151
          [] line = 151 -> 152
          [] line = 152 -> IF TruthyPath(c.output_path) THEN 156 ELSE PcExit
          [] line = 156 -> 158
          [] line = 158 -> 159
          [] line = 159 -> PcExit
          [] line = PcExit -> 162
          [] line \in 162..165 -> line + 1
          [] line = 166 -> 168
          [] OTHER -> PcDone

\* A statement succeeded: it is in the trace, and control moves on.
Goto(c, op) == [c EXCEPT !.trace = Append(@, op), !.pc = NextLine(c, c.pc)]

\* A statement of the `with` body raised: the exception leaves the body through
\* the exit of the run context.
RaiseInBody(c, op) == [c EXCEPT !.trace = Append(@, op), !.err = Some(op), !.pc = PcExit]

\* A statement outside the `with` body raised: the call ends with the error.
RaiseOutside(c, op) ==
    [c EXCEPT !.trace = Append(@, op), !.err = Some(op), !.pc = PcDone,
              !.outcome = Some([kind |-> "raised", error |-> op, value |-> <<>>])]

BodyFails(i, op) ==
    /\ calls' = [calls EXCEPT ![i] = RaiseInBody(calls[i], op)]
    /\ UNCHANGED <<sess, store>>

At(i, lines) == i \in DOMAIN calls /\ calls[i].pc \in lines

\* Lines 77-78: the call of train and its run_name.
TrainBegin(s) ==
    /\ Idle(s) /\ trainer[s] # None
    /\ Len(calls) < MaxCalls
    /\ \E a \in TrainArgs :
          LET self == trainer[s][1]
              run_name == IF Truthy(self.run_origin)
                          THEN Some(<<now[s][1], self.run_origin[1], MlflowVersion>>)
                          ELSE None
          IN  calls' = Append(calls,
                  [session |-> s, self |-> self,
                   registered_model_name |-> a.registered_model_name,
                   registered_model_version_stage |-> a.stage,
                   archive_existing_versions |-> a.archive_existing_versions,
                   output_path |-> a.output_path,
                   max_depth |-> a.max_depth,
                   max_leaf_nodes |-> DefaultMaxLeafNodes,
                   pc |-> 79, run_name |-> run_name,
                   run |-> None, run_id |-> 0, experiment_id |-> 0,
                   model |-> None, predictions |-> None,
                   rmse |-> None, mae |-> None, r2 |-> None,
                   signature |-> None, file |-> None,
                   err |-> None, trace |-> <<>>, outcome |-> None,
                   output_path_arg |-> a.output_path, files_before |-> files])
    /\ UNCHANGED <<sess, store>>

\* run.info of a run record, as the client returns it.
RunInfo(r) == [run_id |-> r.run_id, experiment_id |-> r.experiment_id,
               start_time |-> r.start_time, end_time |-> r.end_time]

\* Lines 79-81: mlflow.start_run creates a RUNNING run under the active
\* experiment of the process; the store assigns its id and start time.
StartRun(i) ==
    /\ At(i, {79})
    /\ LET c == calls[i]
           id == Len(runs) + 1
           r == [run_id |-> id, call |-> i,
                 experiment_id |-> active_experiment[c.session],
                 status |-> "RUNNING",
                 start_time |-> Some(clock), end_time |-> None,
                 tags |-> IF c.run_name = None THEN <<>>
                          ELSE Put(<<>>, "mlflow.runName", c.run_name[1]),
                 params |-> <<>>, metrics |-> <<>>, artifacts |-> <<>>]
       IN  \/ /\ runs' = Append(runs, r)
              /\ calls' = [calls EXCEPT ![i] =
                    Goto([c EXCEPT !.run = Some(RunInfo(r)), !.run_id = id,
                                   !.experiment_id = r.experiment_id],
                         Op("start_run", ""))]
              /\ UNCHANGED <<sess, experiments, registry, files>>
           \/ /\ calls' = [calls EXCEPT ![i] = RaiseOutside(c, Op("start_run", ""))]
              /\ UNCHANGED <<sess, store>>

\* Line 85: client.get_experiment(experiment_id).name
GetExperiment(i) ==
    /\ At(i, {85})
    /\ \/ /\ calls' = [calls EXCEPT ![i] = Goto(calls[i], Op("get_experiment", ""))]
          /\ UNCHANGED <<sess, store>>
       \/ BodyFails(i, Op("get_experiment", ""))

\* Lines 89-102: the key and the value of the mlflow.set_tag at `line`.
StaticTag(i, line) ==
    LET c == calls[i]
    IN  CASE line = 89 -> <<"mlflow.runName", <<c.run_id>>>>
          [] line = 90 -> <<"run_id", c.run_id>>
          [] line = 91 -> <<"save_signature", StrBool(c.self.save_signature)>>
          [] line = 92 -> <<"data_path", c.self.data_path>>
          [] line = 93 -> <<"registered_model_name", StrOpt(c.registered_model_name)>>
          [] line = 94 -> <<"registered_model_version_stage", c.registered_model_version_stage>>
          [] line = 95 -> <<"uuid", [uuid |-> i]>>
          [] line = 96 -> <<"dataset", "wine-quality">>
          [] line = 97 -> <<"run_origin", StrOpt(c.self.run_origin)>>
          [] line = 98 -> <<"timestamp", now[c.session][1]>>
          [] line = 99 -> <<"version.mlflow", MlflowVersion>>
          [] line = 100 -> <<"version.sklearn", SklearnVersion>>
          [] line = 101 -> <<"version.platform", PlatformName>>
          [] OTHER -> <<"version.python", PythonVersion>>

\* Mutant of SetTag: the tag is written to the first run of the store.
SetTag_FirstRun(rs, run_id, key, value) == [rs EXCEPT ![1].tags = Put(@, key, value)]

\* mlflow.set_tag / log_param / log_metric / log_artifact write to the active run
\* of the process: the run the enclosing `with` opened.
SetTag(rs, run_id, key, value) == [rs EXCEPT ![run_id].tags = Put(@, key, value)]

SetStaticTag(i) ==
    /\ At(i, 89..102)
    /\ LET c == calls[i]
           kv == StaticTag(i, c.pc)
       IN  \/ /\ runs' = SetTag(runs, c.run_id, kv[1], kv[2])
              /\ calls' = [calls EXCEPT ![i] = Goto(c, Op("set_tag", kv[1]))]
              /\ UNCHANGED <<sess, experiments, registry, files>>
           \/ BodyFails(i, Op("set_tag", kv[1]))

\* Lines 105-109: the estimator and its fit on the training partition.
Fit(i) ==
    /\ At(i, {109})
    /\ LET c == calls[i]
           model == [max_depth |-> c.max_depth, max_leaf_nodes |-> c.max_leaf_nodes,
                     fitted_on |-> c.self.X_train.rows]
       IN  \/ /\ calls' = [calls EXCEPT ![i] = Goto([c EXCEPT !.model = Some(model)], Op("fit", ""))]
              /\ UNCHANGED <<sess, store>>
           \/ BodyFails(i, Op("fit", ""))

\* Line 110: predictions on the holdout partition.
Predict(i) ==
    /\ At(i, {110})
    /\ LET c == calls[i]
       IN  \/ /\ calls' = [calls EXCEPT ![i] =
                    Goto([c EXCEPT !.predictions = Some([rows |-> c.self.X_test.rows])],
                         Op("predict", ""))]
              /\ UNCHANGED <<sess, store>>
           \/ BodyFails(i, Op("predict", ""))

\* Lines 117-118: mlflow.log_param.
LogParam(i) ==
    /\ At(i, 117..118)
    /\ LET c == calls[i]
           key == IF c.pc = 117 THEN "max_depth" ELSE "max_leaf_nodes"
           value == IF c.pc = 117 THEN StrOptInt(c.max_depth) ELSE ToString(c.max_leaf_nodes)
       IN  \/ /\ runs' = [runs EXCEPT ![c.run_id].params = Put(@, key, value)]
              /\ calls' = [calls EXCEPT ![i] = Goto(c, Op("log_param", key))]
              /\ UNCHANGED <<sess, experiments, registry, files>>
           \/ BodyFails(i, Op("log_param", key))

\* Lines 121-123: the three metrics of the holdout predictions.
ComputeMetric(i) ==
    /\ At(i, 121..123)
    /\ LET c == calls[i]
           name == CASE c.pc = 121 -> "rmse" [] c.pc = 122 -> "mae" [] OTHER -> "r2"
           value == Some([metric |-> name, y_true |-> c.self.y_test.rows,
                          y_pred |-> c.predictions[1].rows])
       IN  \/ /\ calls' = [calls EXCEPT ![i] =
                    Goto(CASE c.pc = 121 -> [c EXCEPT !.rmse = value]
                           [] c.pc = 122 -> [c EXCEPT !.mae = value]
                           [] OTHER -> [c EXCEPT !.r2 = value],
                         Op("metric", name))]
              /\ UNCHANGED <<sess, store>>
           \/ BodyFails(i, Op("metric", name))

\* Mutant of MetricKey: line 132 logs under the name of line 130.
MetricKey_RmseTwice(line) == IF line = 131 THEN "r2" ELSE "rmse"

\* Lines 130-132: the name of the metric the mlflow.log_metric at `line` writes.
MetricKey(line) == CASE line = 130 -> "rmse" [] line = 131 -> "r2" [] OTHER -> "mae"

\* Lines 130-132: mlflow.log_metric appends to the history of the metric.
LogMetric(i) ==
    /\ At(i, 130..132)
    /\ LET c == calls[i]
           key == MetricKey(c.pc)
           value == CASE c.pc = 130 -> c.rmse[1] [] c.pc = 131 -> c.r2[1] [] OTHER -> c.mae[1]
           old == runs[c.run_id].metrics
           history == IF key \in DOMAIN old THEN old[key] ELSE <<>>
       IN  \/ /\ runs' = [runs EXCEPT ![c.run_id].metrics = Put(@, key, Append(history, value))]
              /\ calls' = [calls EXCEPT ![i] = Goto(c, Op("log_metric", key))]
              /\ UNCHANGED <<sess, experiments, registry, files>>
           \/ BodyFails(i, Op("log_metric", key))

\* Mutant of WantsSignature: the signature is always inferred.
WantsSignature_Always(c) == TRUE

\* Line 135: the signature is inferred only if self.save_signature.
WantsSignature(c) == c.self.save_signature

infer_signature(X, predictions) == [inputs |-> X.columns, outputs |-> predictions.rows]

InferSignature(i) ==
    /\ At(i, {135})
    /\ LET c == calls[i]
       IN  IF WantsSignature(c)
           THEN \/ /\ calls' = [calls EXCEPT ![i] =
                         Goto([c EXCEPT !.signature =
                                  Some(infer_signature(c.self.X_train, c.predictions[1]))],
                              Op("infer_signature", ""))]
                   /\ UNCHANGED <<sess, store>>
                \/ BodyFails(i, Op("infer_signature", ""))
           ELSE /\ calls' = [calls EXCEPT ![i] = [c EXCEPT !.signature = None,
                                                           !.pc = NextLine(c, c.pc)]]
                /\ UNCHANGED <<sess, store>>

\* Line 139: mlflow.sklearn.log_model(model, "model", signature=signature)
LogModel(i) ==
    /\ At(i, {139})
    /\ LET c == calls[i]
           artifact == [flavor |-> "sklearn", model |-> c.model[1], signature |-> c.signature]
       IN  \/ /\ runs' = [runs EXCEPT ![c.run_id].artifacts = Put(@, "model", artifact)]
              /\ calls' = [calls EXCEPT ![i] = Goto(c, Op("log_model", "model"))]
              /\ UNCHANGED <<sess, experiments, registry, files>>
           \/ BodyFails(i, Op("log_model", "model"))

\* Lines 141-142: the arguments train hands to mlflow_utils.register_model.
RegisterArgs(c) ==
    [model_artifact |-> "model",
     name |-> c.registered_model_name[1],
     stage |-> c.registered_model_version_stage,
     archive_existing_versions |-> c.archive_existing_versions,
     run_id |-> c.run[1].run_id]

\* mlflow_utils.register_model: a new version of the named model that points at
\* the run's model artifact, moved to the requested stage; with
\* archive_existing_versions the versions of that model active before are archived.
register_model(versions, a) ==
    LET same == {k \in DOMAIN versions : versions[k].name = a.name}
        active(k) == k \in same /\ versions[k].stage \notin {"None", "Archived"}
        kept == [k \in DOMAIN versions |->
                    IF a.archive_existing_versions /\ active(k)
                    THEN [versions[k] EXCEPT !.stage = "Archived"]
                    ELSE versions[k]]
    IN  Append(kept, [name |-> a.name, version |-> Cardinality(same) + 1,
                      stage |-> a.stage, run_id |-> a.run_id, source |-> a.model_artifact])

RegisterModel(i) ==
    /\ At(i, {141})
    /\ LET c == calls[i]
           a == RegisterArgs(c)
       IN  \/ /\ registry' = [registry EXCEPT !.versions = register_model(@, a),
                                              !.register_calls = Append(@, a)]
              /\ calls' = [calls EXCEPT ![i] = Goto(c, Op("register_model", a.name))]
              /\ UNCHANGED <<sess, experiments, runs, files>>
           \/ /\ registry' = [registry EXCEPT !.register_calls = Append(@, a)]
              /\ calls' = [calls EXCEPT ![i] = RaiseInBody(c, Op("register_model", a.name))]
              /\ UNCHANGED <<sess, experiments, runs, files>>

\* Line 147: the arguments train hands to onnx_utils.log_model.
OnnxArgs(c) ==
    [artifact_path |-> "onnx-model",
     registered_model_name |-> c.registered_model_name,
     model |-> c.model[1],
     X_test |-> c.self.X_test.rows,
     run_id |-> c.run_id]

\* Lines 145-147: onnx_utils.log_model converts the model and logs it to the
\* active run under the artifact path, with the registration name.
LogOnnxModel(i) ==
    /\ At(i, {147})
    /\ LET c == calls[i]
           a == OnnxArgs(c)
           artifact == [flavor |-> "onnx", model |-> a.model,
                        registered_model_name |-> a.registered_model_name]
       IN  \/ /\ runs' = [runs EXCEPT ![c.run_id].artifacts = Put(@, a.artifact_path, artifact)]
              /\ registry' = [registry EXCEPT !.onnx_calls = Append(@, a)]
              /\ calls' = [calls EXCEPT ![i] = Goto(c, Op("onnx_log_model", a.artifact_path))]
              /\ UNCHANGED <<sess, experiments, files>>
           \/ /\ registry' = [registry EXCEPT !.onnx_calls = Append(@, a)]
              /\ calls' = [calls EXCEPT ![i] = RaiseInBody(c, Op("onnx_log_model", a.artifact_path))]
              /\ UNCHANGED <<sess, experiments, runs, files>>

plot_file == <<"plot.png">>

\* Line 151: plot_utils.create_plot_file writes the plot to plot_file.
CreatePlotFile(i) ==
    /\ At(i, {151})
    /\ LET c == calls[i]
           plot == [y_true |-> c.self.y_test.rows, y_pred |-> c.predictions[1].rows]
       IN  \/ /\ files' = Put(files, plot_file, <<plot>>)
              /\ calls' = [calls EXCEPT ![i] = Goto(c, Op("create_plot_file", "plot.png"))]
              /\ UNCHANGED <<sess, experiments, runs, registry>>
           \/ BodyFails(i, Op("create_plot_file", "plot.png"))

\* Line 152: mlflow.log_artifact(plot_file)
LogArtifact(i) ==
    /\ At(i, {152})
    /\ LET c == calls[i]
       IN  \/ /\ runs' = [runs EXCEPT ![c.run_id].artifacts = Put(@, "plot.png", files[plot_file])]
              /\ calls' = [calls EXCEPT ![i] = Goto(c, Op("log_artifact", "plot.png"))]
              /\ UNCHANGED <<sess, experiments, registry, files>>
           \/ BodyFails(i, Op("log_artifact", "plot.png"))

\* Line 156: mlflow.set_tag("output_path", output_path)
TagOutputPath(i) ==
    /\ At(i, {156})
    /\ LET c == calls[i]
       IN  \/ /\ runs' = SetTag(runs, c.run_id, "output_path", c.output_path[1])
              /\ calls' = [calls EXCEPT ![i] = Goto(c, Op("set_tag", "output_path"))]
              /\ UNCHANGED <<sess, experiments, registry, files>>
           \/ BodyFails(i, Op("set_tag", "output_path"))

\* str.replace(old, new) on a path: every occurrence of the token is replaced.
Replace(path, old, new) == [k \in DOMAIN path |-> IF path[k] = old THEN new ELSE path[k]]

\* Lines 157-158: the path is rewritten and opened for writing, which creates
\* the file or truncates it.
OpenOutputFile(i) ==
    /\ At(i, {158})
    /\ LET c == calls[i]
           path == Replace(c.output_path[1], "dbfs:", "/dbfs")
       IN  \/ /\ files' = Put(files, path, <<>>)
              /\ calls' = [calls EXCEPT ![i] =
                    Goto([c EXCEPT !.output_path = Some(path), !.file = Some(path)],
                         Op("open", ""))]
              /\ UNCHANGED <<sess, experiments, runs, registry>>
           \/ BodyFails(i, Op("open", ""))

\* Mutant of FileText: the other identifier of the run is written.
FileText_ExperimentId(c) == c.experiment_id

\* Line 159: what train writes to the output file.
FileText(c) == c.run_id

WriteRunId(i) ==
    /\ At(i, {159})
    /\ LET c == calls[i]
       IN  \/ /\ files' = [files EXCEPT ![c.file[1]] = Append(@, FileText(c))]
              /\ calls' = [calls EXCEPT ![i] = Goto(c, Op("write", ""))]
              /\ UNCHANGED <<sess, experiments, runs, registry>>
           \/ BodyFails(i, Op("write", ""))

\* Mutant of CloseRun: a run whose body raised is ended and emptied.
CloseRun_Rollback(r, err, t) ==
    IF err = None
    THEN [r EXCEPT !.status = "FINISHED", !.end_time = Some(t)]
    ELSE [r EXCEPT !.status = "FAILED", !.end_time = Some(t), !.tags = <<>>,
                   !.params = <<>>, !.metrics = <<>>, !.artifacts = <<>>]

\* Mutant of CloseRun: the run is ended only when the body completed.
CloseRun_OnlyOnSuccess(r, err, t) ==
    IF err = None THEN [r EXCEPT !.status = "FINISHED", !.end_time = Some(t)] ELSE r

\* The exit of the run context (line 79, `with`): the run is ended, FINISHED when
\* the body completed and FAILED when it raised; the store fixes the end time.
CloseRun(r, err, t) ==
    [r EXCEPT !.status = IF err = None THEN "FINISHED" ELSE "FAILED",
              !.end_time = Some(t)]

\* Mutant of AfterExit: the exit of the context swallows the exception.
AfterExit_Swallow(c) == [c EXCEPT !.pc = 162]

\* After the exit, an exception of the body propagates to the caller of train.
AfterExit(c) ==
    IF c.err = None
    THEN [c EXCEPT !.pc = NextLine(c, PcExit)]
    ELSE [c EXCEPT !.pc = PcDone,
                   !.outcome = Some([kind |-> "raised", error |-> c.err[1], value |-> <<>>])]

ExitRun(i) ==
    /\ At(i, {PcExit})
    /\ LET c == calls[i]
       IN  /\ runs' = [runs EXCEPT ![c.run_id] = CloseRun(@, c.err, clock)]
           /\ calls' = [calls EXCEPT ![i] = AfterExit(c)]
           /\ UNCHANGED <<sess, experiments, registry, files>>

\* Mutant of ReadRun: the run object of the `with` statement is used as it is.
ReadRun_Stale(c) == c.run[1]

\* Line 162: run = client.get_run(run_id)
ReadRun(c) == RunInfo(runs[c.run_id])

GetRun(i) ==
    /\ At(i, {162})
    /\ LET c == calls[i]
       IN  \/ calls' = [calls EXCEPT ![i] = Goto([c EXCEPT !.run = Some(ReadRun(c))],
                                                 Op("get_run", ""))]
           \/ calls' = [calls EXCEPT ![i] = RaiseOutside(c, Op("get_run", ""))]
    /\ UNCHANGED <<sess, store>>

\* Mutant of TimingTag: the start time is rendered by the seconds formatter.
TimingTag_Seconds(c, line) ==
    LET info == c.run[1]
    IN  CASE line = 163 -> <<"run.info.start_time", StrOptInt(info.start_time)>>
          [] line = 164 -> <<"run.info.end_time", StrOptInt(info.end_time)>>
          [] line = 165 -> <<"run.info._start_time",
                             fmt_ts_seconds(PyRoundSeconds(info.start_time[1]))>>
          [] OTHER -> <<"run.info._end_time", fmt_ts_millis(info.end_time[1])>>

\* Lines 163-166: the key and the value of the client.set_tag at `line`.
TimingTag(c, line) ==
    LET info == c.run[1]
    IN  CASE line = 163 -> <<"run.info.start_time", StrOptInt(info.start_time)>>
          [] line = 164 -> <<"run.info.end_time", StrOptInt(info.end_time)>>
          [] line = 165 -> <<"run.info._start_time", fmt_ts_millis(info.start_time[1])>>
          [] OTHER -> <<"run.info._end_time", fmt_ts_millis(info.end_time[1])>>

TimingTagKeys ==
    {"run.info.start_time", "run.info.end_time", "run.info._start_time", "run.info._end_time"}

\* The formatter raises on a timestamp that is None.
TimingTagDefined(c, line) ==
    /\ line = 165 => c.run[1].start_time # None
    /\ line = 166 => c.run[1].end_time # None

SetTimingTag(i) ==
    /\ At(i, 163..166)
    /\ LET c == calls[i]
           key == CASE c.pc = 163 -> "run.info.start_time"
                    [] c.pc = 164 -> "run.info.end_time"
                    [] c.pc = 165 -> "run.info._start_time"
                    [] OTHER -> "run.info._end_time"
       IN  \/ /\ TimingTagDefined(c, c.pc)
              /\ runs' = SetTag(runs, c.run_id, key, TimingTag(c, c.pc)[2])
              /\ calls' = [calls EXCEPT ![i] = Goto(c, Op("client.set_tag", key))]
           \/ /\ calls' = [calls EXCEPT ![i] = RaiseOutside(c, Op("client.set_tag", key))]
              /\ UNCHANGED runs
    /\ UNCHANGED <<sess, experiments, registry, files>>

\* Mutant of ReturnValue: the two identifiers in the other order.
ReturnValue_Swapped(c) == <<c.run_id, c.experiment_id>>

\* Line 168: return (experiment_id, run_id)
ReturnValue(c) == <<c.experiment_id, c.run_id>>

Return(i) ==
    /\ At(i, {168})
    /\ calls' = [calls EXCEPT ![i] =
          [calls[i] EXCEPT !.pc = PcDone,
                           !.outcome = Some([kind |-> "returned", error |-> <<>>,
                                             value |-> ReturnValue(calls[i])])]]
    /\ UNCHANGED <<sess, store>>

\* ------------------------------------------------------- specification
TrainStep(i) ==
    \/ StartRun(i)
    \/ GetExperiment(i)
    \/ SetStaticTag(i)
    \/ Fit(i)
    \/ Predict(i)
    \/ LogParam(i)
    \/ ComputeMetric(i)
    \/ LogMetric(i)
    \/ InferSignature(i)
    \/ LogModel(i)
    \/ RegisterModel(i)
    \/ LogOnnxModel(i)
    \/ CreatePlotFile(i)
    \/ LogArtifact(i)
    \/ TagOutputPath(i)
    \/ OpenOutputFile(i)
    \/ WriteRunId(i)
    \/ ExitRun(i)
    \/ GetRun(i)
    \/ SetTimingTag(i)
    \/ Return(i)

MainSession == "s1"

Next ==
    \/ Tick
    \/ ImportModule(MainSession)
    \/ TrainerInit(MainSession)
    \/ SetExperiment(MainSession)
    \/ GetExperimentByName(MainSession)
    \/ SetExperimentTag(MainSession)
    \/ TrainBegin(MainSession)
    \/ \E i \in 1..MaxCalls : TrainStep(i)

Spec == Init /\ [][Next]_vars

NextSessions ==
    \/ Tick
    \/ \E s \in Sessions :
          \/ ImportModule(s)
          \/ TrainerInit(s)
          \/ SetExperiment(s)
          \/ GetExperimentByName(s)
          \/ SetExperimentTag(s)

SpecSessions == Init /\ [][NextSessions]_vars

NextPartition ==
    \/ Tick
    \/ \E s \in Sessions :
          \/ ImportModule(s)
          \/ BuildData(s)

SpecPartition == Init /\ [][NextPartition]_vars

\* --------------------------------------------------------------- claims
\* The states of a run: 0 NOT_STARTED (no record), 1 OPEN (RUNNING), 2 CLOSED
\* (ended), 3 FINALIZED (the four timing tags are on the record).
RunRank(id) ==
    IF id \notin DOMAIN runs THEN 0
    ELSE IF TimingTagKeys \subseteq DOMAIN runs[id].tags THEN 3
    ELSE IF runs[id].status = "RUNNING" THEN 1
    ELSE 2

\* The operations of train outside the `with` body.
OutsideBodyOps == {"start_run", "get_run", "client.set_tag"}

\* The keys of the tags the run body writes.
BodyTagKeys ==
    {"mlflow.runName", "run_id", "save_signature", "data_path", "registered_model_name",
     "registered_model_version_stage", "uuid", "dataset", "run_origin", "timestamp",
     "version.mlflow", "version.sklearn", "version.platform", "version.python",
     "output_path"}

\* C1: whenever a call of train has ended, normally or with an error, the run
\* it opened is closed (ended, with an end time); if a statement of the run
\* body raised, the run is closed as FAILED by the time the caller has the error.
C1_RunClosedBeforeErrorObserved ==
    \A r \in DOMAIN runs :
        LET i == runs[r].call
        IN  calls[i].pc = PcDone =>
                /\ runs[r].status \in {"FINISHED", "FAILED"}
                /\ runs[r].end_time # None
                /\ (Raised(i) /\ calls[i].outcome[1].error[1] \notin OutsideBodyOps)
                       => runs[r].status = "FAILED"

C1_Witness ==
    \E r \in DOMAIN runs :
        /\ Raised(runs[r].call)
        /\ calls[runs[r].call].outcome[1].error = Op("write", "")
        /\ runs[r].status = "FAILED"

\* C2: no operation of a call is attempted twice; once an operation of the run
\* body has raised, no further operation is attempted, and the call ends by
\* raising that same error, with no return value.
C2_ErrorPropagatesOnce ==
    \A i \in DOMAIN calls :
        LET c == calls[i]
        IN  /\ Cardinality({c.trace[k] : k \in DOMAIN c.trace}) = Len(c.trace)
            /\ c.err # None =>
                  /\ c.pc \in {PcExit, PcDone}
                  /\ c.trace[Len(c.trace)] = c.err[1]
                  /\ c.pc = PcDone =>
                        c.outcome = Some([kind |-> "raised", error |-> c.err[1],
                                          value |-> <<>>])

C2_Witness ==
    \E i \in DOMAIN calls :
        /\ Raised(i)
        /\ calls[i].outcome[1].error = Op("register_model", "wine-model")
        /\ calls[i].outcome[1].value = <<>>

\* C3: in every step the state of every run stays or moves to the next of
\* NOT_STARTED, OPEN, CLOSED, FINALIZED; and a call that returned leaves the
\* run it opened FINALIZED and returned that run's experiment id and run id.
C3_RunLifecycle ==
    /\ [](\A i \in DOMAIN calls :
             Returned(i) =>
                \E r \in DOMAIN runs :
                    /\ runs[r].call = i
                    /\ RunRank(r) = 3
                    /\ calls[i].outcome[1].value = <<runs[r].experiment_id, runs[r].run_id>>)
    /\ [][\A id \in 1..MaxCalls : RunRank(id)' \in {RunRank(id), RunRank(id) + 1}]_vars

C3_Witness ==
    \E i \in DOMAIN calls :
        /\ Returned(i)
        /\ calls[i].outcome[1].value = <<1, 2>>
        /\ RunRank(2) = 3

\* The tags of run r that a step writes: new keys and changed values.
TagsWritten(r) ==
    {k \in DOMAIN runs'[r].tags :
        \/ r \notin DOMAIN runs
        \/ k \notin DOMAIN runs[r].tags
        \/ runs[r].tags[k] # runs'[r].tags[k]}

\* C4: a step writes a descriptive tag only to a run that is OPEN and a timing
\* tag only to a run that was already CLOSED; the timing tags on a run hold the
\* start and end time of its closed record.
C4_TwoPhaseTags ==
    /\ [](\A r \in DOMAIN runs :
            LET t == runs[r].tags
            IN  (DOMAIN t \cap TimingTagKeys # {}) =>
                  /\ runs[r].status # "RUNNING"
                  /\ runs[r].end_time # None
                  /\ "run.info.start_time" \in DOMAIN t =>
                         t["run.info.start_time"] = ToString(runs[r].start_time[1])
                  /\ "run.info.end_time" \in DOMAIN t =>
                         t["run.info.end_time"] = ToString(runs[r].end_time[1])
                  /\ "run.info._start_time" \in DOMAIN t =>
                         t["run.info._start_time"] = fmt_ts_millis(runs[r].start_time[1])
                  /\ "run.info._end_time" \in DOMAIN t =>
                         t["run.info._end_time"] = fmt_ts_millis(runs[r].end_time[1]))
    /\ [][\A r \in DOMAIN runs' : \A k \in TagsWritten(r) :
             IF k \in TimingTagKeys
             THEN r \in DOMAIN runs /\ runs[r].status # "RUNNING"
             ELSE runs'[r].status = "RUNNING"]_vars

C4_Witness ==
    \E r \in DOMAIN runs :
        /\ RunRank(r) = 3
        /\ "run_id" \in DOMAIN runs[r].tags
        /\ runs[r].tags["run.info.start_time"] = "0"
        /\ runs[r].tags["run.info.end_time"] = "700"

\* C5 (as amended): a FINALIZED run carries exactly four post-close tags: the
\* raw start time, the raw end time, and the start time and the end time as
\* rendered by fmt_ts_millis.
C5_FourTimingTags ==
    \A r \in DOMAIN runs :
        RunRank(r) = 3 =>
            LET t == runs[r].tags
            IN  /\ DOMAIN t \ BodyTagKeys = TimingTagKeys
                /\ t["run.info.start_time"] = ToString(runs[r].start_time[1])
                /\ t["run.info.end_time"] = ToString(runs[r].end_time[1])
                /\ t["run.info._start_time"] = fmt_ts_millis(runs[r].start_time[1])
                /\ t["run.info._end_time"] = fmt_ts_millis(runs[r].end_time[1])

C5_Witness ==
    \E r \in DOMAIN runs :
        /\ RunRank(r) = 3
        /\ runs[r].tags["run.info._start_time"] = [sec |-> 0, msec |-> 0]
        /\ runs[r].tags["run.info._end_time"] = [sec |-> 0, msec |-> 700]

\* C5 (as claimed): of the two formatted timing tags of a FINALIZED run, one is
\* of second precision and one of millisecond precision.
C5_SecondAndMillisVariants ==
    \A r \in DOMAIN runs :
        RunRank(r) = 3 =>
            \E k1, k2 \in {"run.info._start_time", "run.info._end_time"} :
                /\ DOMAIN runs[r].tags[k1] = {"sec"}
                /\ DOMAIN runs[r].tags[k2] = {"sec", "msec"}

\* C6: when the latest call of train has returned: if it was given an output
\* path, the file at the rewritten path holds exactly the returned run id and
\* the run has an output_path tag; if it was given none (None or ""), the run
\* has no output_path tag and no file but the plot file was written by the call.
C6_OutputFileHoldsRunId ==
    \A i \in DOMAIN calls :
        (Returned(i) /\ i = Len(calls)) =>
            LET c == calls[i]
                run_id == c.outcome[1].value[2]
            IN  IF TruthyPath(c.output_path_arg)
                THEN LET path == Replace(c.output_path_arg[1], "dbfs:", "/dbfs")
                     IN  /\ path \in DOMAIN files
                         /\ files[path] = <<run_id>>
                         /\ "output_path" \in DOMAIN runs[run_id].tags
                ELSE /\ "output_path" \notin DOMAIN runs[run_id].tags
                     /\ \A p \in DOMAIN files \ {plot_file} :
                            p \in DOMAIN c.files_before /\ files[p] = c.files_before[p]

C6_Witness ==
    \E i \in DOMAIN calls :
        /\ Returned(i)
        /\ calls[i].output_path_arg = Some(<<"dbfs:", "/out/run_id.txt">>)
        /\ files[<<"/dbfs", "/out/run_id.txt">>] = <<calls[i].outcome[1].value[2]>>

\* C7 (as claimed): a file that holds the identifier of a run exists only once
\* that run is closed.
C7_FileWrittenAfterClose ==
    \A r \in DOMAIN runs : \A p \in DOMAIN files \ {plot_file} :
        files[p] = <<r>> => runs[r].status # "RUNNING"

\* C7 (as amended): the output path is tagged, opened and written only while
\* the run is OPEN, and at the end of a run body that did not raise the file
\* already holds the run identifier, the run being still OPEN.
C7_FileWrittenInsideRunBody ==
    \A i \in DOMAIN calls :
        LET c == calls[i]
        IN  (c.run_id # 0 /\ TruthyPath(c.output_path_arg)) =>
                LET path == Replace(c.output_path_arg[1], "dbfs:", "/dbfs")
                IN  /\ c.pc \in {156, 158, 159} => runs[c.run_id].status = "RUNNING"
                    /\ (c.pc = PcExit /\ c.err = None) =>
                          /\ runs[c.run_id].status = "RUNNING"
                          /\ path \in DOMAIN files
                          /\ files[path] = <<c.run_id>>

C7_Witness ==
    \E i \in DOMAIN calls :
        /\ calls[i].pc = PcExit /\ calls[i].err = None
        /\ runs[calls[i].run_id].status = "RUNNING"
        /\ <<"/tmp/run_id.txt">> \in DOMAIN files
        /\ files[<<"/tmp/run_id.txt">>] = <<calls[i].run_id>>

\* C8 (as claimed): an experiment tag, once written, keeps its value: every
\* later Trainer construction writes the same value again.
C8_ExperimentTagsIdempotent ==
    [][\A e \in DOMAIN experiments : \A k \in DOMAIN experiments[e].tags :
          experiments'[e].tags[k] = experiments[e].tags[k]]_vars

\* C9: the model artifact of a run carries no signature when save_signature is
\* false, and the signature of the training feature columns and the holdout
\* predictions when it is true; with save_signature false no signature is
\* ever inferred.
C9_SignatureOnlyIfRequested ==
    \A r \in DOMAIN runs :
        LET c == calls[runs[r].call]
        IN  /\ "model" \in DOMAIN runs[r].artifacts =>
                  runs[r].artifacts["model"].signature =
                      IF c.self.save_signature
                      THEN Some([inputs |-> DropColumn(ReadCsv(c.self.data_path).columns, col_label),
                                 outputs |-> c.predictions[1].rows])
                      ELSE None
            /\ ~c.self.save_signature =>
                  /\ c.signature = None
                  /\ \A k \in DOMAIN c.trace : c.trace[k][1] # "infer_signature"

C9_Witness ==
    \E r \in DOMAIN runs :
        /\ "model" \in DOMAIN runs[r].artifacts
        /\ runs[r].artifacts["model"].signature # None
        /\ runs[r].artifacts["model"].signature[1].inputs = <<"alcohol", "pH">>

\* C10: the Registrar is invoked for a run exactly when a non-empty registration
\* name was given and the call has executed its step 7 (the model artifact is
\* persisted and control is past line 141); it is invoked at most once, and is
\* handed that run, the model artifact, the name, the stage and the
\* archive_existing_versions flag of the call.
C10_RegistrarInvocation ==
    \A r \in DOMAIN runs :
        LET c == calls[runs[r].call]
            got == {k \in DOMAIN registry.register_calls :
                       registry.register_calls[k].run_id = r}
            reached == "model" \in DOMAIN runs[r].artifacts /\ c.pc # 141
        IN  /\ Cardinality(got) <= 1
            /\ (got # {}) <=> (c.registered_model_name # None
                               /\ c.registered_model_name[1] # ""
                               /\ reached)
            /\ \A k \in got :
                  /\ "model" \in DOMAIN runs[r].artifacts
                  /\ registry.register_calls[k] =
                        [model_artifact |-> "model",
                         name |-> c.registered_model_name[1],
                         stage |-> c.registered_model_version_stage,
                         archive_existing_versions |-> c.archive_existing_versions,
                         run_id |-> r]

C10_Witness ==
    \E k \in DOMAIN registry.register_calls :
        /\ registry.register_calls[k].stage = "Staging"
        /\ registry.register_calls[k].archive_existing_versions
        /\ \E v \in DOMAIN registry.versions :
              registry.versions[v].run_id = registry.register_calls[k].run_id

\* The positions in the trace of a call at which the operation `name` appears.
TracePos(c, name) == {k \in DOMAIN c.trace : c.trace[k][1] = name}

\* The call has executed step 8 of the run body: the model artifact is
\* persisted, a registration (if any) did not raise, and control is past
\* lines 141 and 147.
ReachedExport(c) ==
    /\ c.run_id # 0
    /\ "model" \in DOMAIN runs[c.run_id].artifacts
    /\ c.pc \notin {141, 147}
    /\ c.err # None => c.err[1][1] # "register_model"

DatasetRows(path) == 1..ReadCsv(path).nrows

Phase(op) ==
    CASE op[1] \in {"start_run", "get_experiment"} -> 0
      [] op[1] = "set_tag" -> IF op[2] = "output_path" THEN 13 ELSE 1
      [] op[1] = "fit" -> 2
      [] op[1] = "predict" -> 3
      [] op[1] = "log_param" -> 4
      [] op[1] = "metric" -> 5
      [] op[1] = "log_metric" -> 6
      [] op[1] = "infer_signature" -> 7
      [] op[1] = "log_model" -> 8
      [] op[1] = "register_model" -> 9
      [] op[1] = "onnx_log_model" -> 10
      [] op[1] = "create_plot_file" -> 11
      [] op[1] = "log_artifact" -> 12
      [] op[1] = "open" -> 14
      [] op[1] = "write" -> 15
      [] OTHER -> 16

\* The operations a call performs in a step, given its Trainer and arguments.
StepOps(c, p) ==
    CASE p = 0 -> {Op("start_run", ""), Op("get_experiment", "")}
      [] p = 1 -> {Op("set_tag", k) :
                     k \in (BodyTagKeys \ {"output_path", "mlflow.runName"})
                            \cup (IF c.self.use_run_id_as_run_name
                                  THEN {"mlflow.runName"} ELSE {})}
      [] p = 2 -> {Op("fit", "")}
      [] p = 3 -> {Op("predict", "")}
      [] p = 4 -> {Op("log_param", "max_depth"), Op("log_param", "max_leaf_nodes")}
      [] p = 5 -> {Op("metric", "rmse"), Op("metric", "mae"), Op("metric", "r2")}
      [] p = 6 -> {Op("log_metric", "rmse"), Op("log_metric", "mae"), Op("log_metric", "r2")}
      [] p = 7 -> IF c.self.save_signature THEN {Op("infer_signature", "")} ELSE {}
      [] p = 8 -> {Op("log_model", "model")}
      [] p = 9 -> IF Truthy(c.registered_model_name)
                  THEN {Op("register_model", c.registered_model_name[1])} ELSE {}
      [] p = 10 -> IF c.self.log_as_onnx THEN {Op("onnx_log_model", "onnx-model")} ELSE {}
      [] p = 11 -> {Op("create_plot_file", "plot.png")}
      [] p = 12 -> {Op("log_artifact", "plot.png")}
      [] p = 13 -> IF TruthyPath(c.output_path_arg) THEN {Op("set_tag", "output_path")} ELSE {}
      [] p = 14 -> IF TruthyPath(c.output_path_arg) THEN {Op("open", "")} ELSE {}
      [] OTHER -> IF TruthyPath(c.output_path_arg) THEN {Op("write", "")} ELSE {}

\* C13: the operations of a call are attempted in the order of the steps (all
\* static tags, fit, predict, the two params, the three metrics, the model,
\* registration, export, plot, and last the output-path tag and the file
\* write): no operation follows one of a later step, and when an operation of
\* a step has been attempted every operation of every earlier step is done.
C13_RunBodyOrdered ==
    \A i \in DOMAIN calls :
        LET c == calls[i]
            n == Len(c.trace)
            last == Phase(c.trace[n])
            attempted == {c.trace[k] : k \in 1..n}
            earlier == UNION {StepOps(c, p) : p \in 0..(last - 1)}
        IN  /\ \A k \in 1..(n - 1) : Phase(c.trace[k]) <= Phase(c.trace[k + 1])
            /\ n > 0 =>
                  /\ earlier \subseteq attempted
                  /\ \A op \in attempted \ earlier :
                        /\ Phase(op) = last
                        /\ last <= 15 => op \in StepOps(c, last)

C13_Witness ==
    \E i \in DOMAIN calls :
        /\ calls[i].pc = PcExit /\ calls[i].err = None
        /\ Len(calls[i].trace) = 35
        /\ calls[i].trace[35] = Op("write", "")
        /\ calls[i].trace[17] = Op("fit", "")

ParamNames == {"max_depth", "max_leaf_nodes"}
MetricNames == {"rmse", "mae", "r2"}

RewriteLeadingPrefix(path) ==
    IF path # <<>> /\ Head(path) = "dbfs:" THEN <<"/dbfs">> \o Tail(path) ELSE path

\* C15 (as claimed): the file a call opens is at the supplied output path with
\* only a leading "dbfs:" rewritten to "/dbfs" (a path that does not start with
\* "dbfs:" is opened unchanged), and the output_path tag of the run is the
\* supplied path.
C15_OnlyLeadingPrefixRewritten ==
    \A i \in DOMAIN calls :
        LET c == calls[i]
        IN  c.file # None =>
                /\ c.file[1] = RewriteLeadingPrefix(c.output_path_arg[1])
                /\ runs[c.run_id].tags["output_path"] = c.output_path_arg[1]

\* Every operation of the run body of call c, given its Trainer and arguments.
BodyOps(c) == UNION {StepOps(c, p) : p \in 1..15}

\* C16: a run closed as FAILED has none of the four timing tags (and the call
\* attempted nothing after the run body); a run that has any timing tag is
\* FINISHED, no statement of its body raised, and every operation of its body
\* was performed.
C16_FailedRunNeverFinalized ==
    \A r \in DOMAIN runs :
        LET c == calls[runs[r].call]
            timing == DOMAIN runs[r].tags \cap TimingTagKeys
        IN  /\ runs[r].status = "FAILED" =>
                  /\ timing = {}
                  /\ c.err # None
                  /\ TracePos(c, "get_run") \cup TracePos(c, "client.set_tag") = {}
            /\ timing # {} =>
                  /\ runs[r].status = "FINISHED"
                  /\ c.err # None => c.err[1][1] \in OutsideBodyOps
                  /\ BodyOps(c) \subseteq {c.trace[k] : k \in DOMAIN c.trace}

C16_Witness ==
    \E r \in DOMAIN runs :
        /\ runs[r].status = "FAILED"
        /\ calls[runs[r].call].pc = PcDone
        /\ calls[runs[r].call].err = Some(Op("log_artifact", "plot.png"))
        /\ \E r2 \in DOMAIN runs : RunRank(r2) = 3

\* The effect of a performed operation of call c is in the store.
EffectPresent(c, op) ==
    LET run == runs[c.run_id]
    IN  CASE op[1] \in {"set_tag", "client.set_tag"} -> op[2] \in DOMAIN run.tags
          [] op[1] = "log_param" -> op[2] \in DOMAIN run.params
          [] op[1] = "log_metric" -> op[2] \in DOMAIN run.metrics
          [] op[1] \in {"log_model", "onnx_log_model", "log_artifact"} ->
                op[2] \in DOMAIN run.artifacts
          [] op[1] = "register_model" ->
                \E v \in DOMAIN registry.versions :
                    /\ registry.versions[v].run_id = c.run_id
                    /\ registry.versions[v].name = op[2]
          [] op[1] = "create_plot_file" -> plot_file \in DOMAIN files
          [] op[1] = "open" -> c.file[1] \in DOMAIN files
          [] OTHER -> TRUE

\* C17: nothing is rolled back.  The effect of every operation a call performed
\* before the one that raised is in the store; so when a call raised after a
\* registration, the registered version exists and points at the run, which is
\* FAILED, and when the open or the write of the output file raised, the run has
\* the output_path tag.  No step removes a run, a tag, a param, a metric, an
\* artifact, a registered version or a file.
C17_NoRollback ==
    /\ [](\A i \in DOMAIN calls :
            LET c == calls[i]
                performed == {c.trace[k] : k \in DOMAIN c.trace}
                                \ (IF c.err = None THEN {} ELSE {c.err[1]})
            IN  c.run_id # 0 =>
                  /\ \A op \in performed : EffectPresent(c, op)
                  /\ (Raised(i) /\ c.err[1][1] \notin OutsideBodyOps) =>
                        runs[c.run_id].status = "FAILED"
                  /\ (c.err # None /\ c.err[1][1] \in {"open", "write"}) =>
                        "output_path" \in DOMAIN runs[c.run_id].tags)
    /\ [][/\ Len(runs') >= Len(runs)
          /\ \A r \in DOMAIN runs :
                /\ DOMAIN runs[r].tags \subseteq DOMAIN runs'[r].tags
                /\ DOMAIN runs[r].params \subseteq DOMAIN runs'[r].params
                /\ DOMAIN runs[r].metrics \subseteq DOMAIN runs'[r].metrics
                /\ DOMAIN runs[r].artifacts \subseteq DOMAIN runs'[r].artifacts
          /\ Len(registry'.versions) >= Len(registry.versions)
          /\ \A v \in DOMAIN registry.versions :
                /\ registry'.versions[v].name = registry.versions[v].name
                /\ registry'.versions[v].version = registry.versions[v].version
                /\ registry'.versions[v].run_id = registry.versions[v].run_id
          /\ DOMAIN files \subseteq DOMAIN files'
          /\ Len(experiments') >= Len(experiments)]_vars

C17_Witness ==
    \E i \in DOMAIN calls :
        /\ Raised(i)
        /\ calls[i].err = Some(Op("write", ""))
        /\ runs[calls[i].run_id].status = "FAILED"
        /\ "output_path" \in DOMAIN runs[calls[i].run_id].tags
        /\ "onnx-model" \in DOMAIN runs[calls[i].run_id].artifacts
        /\ \E v \in DOMAIN registry.versions :
              /\ registry.versions[v].run_id = calls[i].run_id
              /\ registry.versions[v].stage = "Production"

\* The errors of loading and partitioning the data.
DataErrors == {"DataLoadError", "ValueError", "SchemaError"}

\* The data file can be read, split, and has the label column.
ValidData(path) ==
    LET data == ReadCsv(path)
    IN  /\ data.ok
        /\ HasColumn(data.columns, col_label)
        /\ data.nrows * (100 - TestSizePct) >= 100

\* C18: a step of a Trainer construction changes no run, no registered version
\* and no file.  A construction that raises a data error does so in its first
\* step, with the tracking store unchanged.  The experiments change only in a
\* construction whose data was loaded and partitioned and whose experiment name
\* is neither None nor empty; a construction with no experiment name completes
\* in one step that leaves the tracking store unchanged.  Every Trainer, and
\* every construction that has reached the experiment, is over valid data.
C18_DataBeforeExperiment ==
    /\ [](\A s \in Sessions :
            /\ trainer[s] # None => ValidData(trainer[s][1].data_path)
            /\ ctor[s] # None =>
                  /\ ValidData(ctor[s][1].self.data_path)
                  /\ ctor[s][1].self.X_train.rows # {}
                  /\ ctor[s][1].self.experiment_name # None
                  /\ ctor[s][1].self.experiment_name[1] # "")
    /\ [][\A s \in Sessions :
             /\ (ctor'[s] # ctor[s] \/ trainer'[s] # trainer[s] \/ init_error'[s] # init_error[s])
                    => (runs' = runs /\ registry' = registry /\ files' = files)
             /\ (init_error'[s] # init_error[s] /\ init_error'[s][1] \in DataErrors)
                    => (ctor[s] = None /\ store' = store)
             /\ (trainer'[s] # trainer[s] /\ trainer'[s][1].experiment_name \in {None, Some("")})
                    => (ctor[s] = None /\ store' = store)]_vars
    /\ [][experiments' # experiments =>
             \E s \in Sessions : ctor[s] # None /\ ctor[s][1].pc \in {56, 58, 59}]_vars

C18_Witness ==
    /\ init_error["s1"] = Some("SchemaError")
    /\ Len(experiments) = 2
    /\ DOMAIN experiments[2].tags = {"version_mlflow", "experiment_created"}
    /\ Len(runs) = 1

\* The Trainer has the partitions its constructor built from its data_path.
AsConstructed(self) ==
    LET data == _build_data(self.data_path)
    IN  /\ self.X_train = data.X_train /\ self.X_test = data.X_test
        /\ self.y_train = data.y_train /\ self.y_test = data.y_test

\* C19: a step of train changes neither the Trainer of the session nor the
\* Trainer the call runs on, whose partitions are those its constructor built;
\* every call that has opened a run has a run of its own, with an identifier no
\* other call has; and a step changes a run only if it is a step of the call
\* that opened that run.
C19_TrainLeavesTrainerUnchanged ==
    /\ [](/\ \A s \in Sessions : trainer[s] # None => AsConstructed(trainer[s][1])
          /\ \A i \in DOMAIN calls :
                /\ AsConstructed(calls[i].self)
                /\ calls[i].run_id # 0 =>
                      /\ calls[i].run_id \in DOMAIN runs
                      /\ runs[calls[i].run_id].run_id = calls[i].run_id
                      /\ runs[calls[i].run_id].call = i
                      /\ \A j \in DOMAIN calls : calls[j].run_id = calls[i].run_id => j = i)
    /\ [][\A i \in DOMAIN calls :
             /\ calls'[i].self = calls[i].self
             /\ calls'[i].session = calls[i].session
             /\ calls'[i] # calls[i] => trainer' = trainer
             /\ calls[i].run_id # 0 => calls'[i].run_id = calls[i].run_id]_vars
    /\ [][\A r \in DOMAIN runs' :
             (r \notin DOMAIN runs \/ runs'[r] # runs[r]) =>
                 \E i \in DOMAIN calls :
                     /\ calls'[i] # calls[i]
                     /\ calls'[i].run_id = r
                     /\ \A j \in DOMAIN calls \ {i} : calls'[j] = calls[j]]_vars

C19_Witness ==
    /\ Len(calls) = 2
    /\ Returned(1) /\ Raised(2)
    /\ calls[1].run_id = 1 /\ calls[2].run_id = 2
    /\ calls[1].self = calls[2].self
    /\ trainer["s1"] = Some(calls[1].self)
    /\ calls[2].err = Some(Op("fit", ""))
    /\ "run_id" \in DOMAIN runs[2].tags

====
